---- MODULE Spec2Model ----
(***************************************************************************)
(* Model of the weather service of WeatherApp (src/weather_service.py):    *)
(* the forecast aggregation (_aggregate_daily), the three upstream calls   *)
(* (get_current_weather, _fetch_forecast, _get_air_quality) and their      *)
(* composition get_dashboard_weather, with the page that renders a         *)
(* dashboard (src/pages/home.py, src/components) and the search handler of *)
(* the window (src/main.py).                                               *)
(*                                                                         *)
(* Under Spec one behaviour is one invocation of one function: Init draws  *)
(* the function, its arguments and the configured API key; the function's  *)
(* action runs it to completion, drawing what the upstream service         *)
(* answers to every request it issues. Under UiSpec a behaviour is the     *)
(* life of one window: the user types and triggers searches, and every     *)
(* trigger runs handle_search in a thread of its own, statement by         *)
(* statement.                                                              *)
(***************************************************************************)
EXTENDS Integers, Sequences, FiniteSets, TLC

VARIABLES
    API_KEY,    \* config.API_KEY, fixed for the life of the process
    op,         \* the function invoked
    args,       \* its arguments
    pc,         \* "called" before the function has run, "done" after
    requests,   \* the HTTP requests issued by the invocation, in order
    responses,  \* what upstream answered to each of them, in order
    result,     \* how the invocation ended: a return value or an exception
    home,       \* what was rendered from the result: cards, points and bars
    city_input,         \* main.py: the value of the text field
    status_text,        \* main.py: value and colour of the status line
    weather_container,  \* main.py: the content of the card container
    progress_ring,      \* main.py: whether the loading indicator is visible
    runs                \* the run of handle_search each event source started

service == <<op, args, pc, requests, responses, result, home>>
window == <<city_input, status_text, weather_container, progress_ring, runs>>
vars == <<API_KEY, service, window>>

----------------------------------------------------------------------------
(* Bounds of the input space. *)

MaxLen == 3         \* longest raw forecast drawn exhaustively
MaxDay == 2         \* calendar dates 1..MaxDay
MaxDates == 6       \* calendar dates of the longest feed and daily list
MaxDescLen == 3     \* longest condition text drawn exhaustively

----------------------------------------------------------------------------
(* Python values. None is the empty sequence, a present value a            *)
(* one-element sequence; a str is a sequence of one-character strings.     *)

None == <<>>
Some(x) == <<x>>

Range(s) == {s[i] : i \in DOMAIN s}

SeqsUpTo(S, n) == UNION {[1..k -> S] : k \in 0..n}

(* str.capitalize(): the first character upper-cased, all the others       *)
(* lower-cased. *)
Upper(c) == CASE c = "n" -> "N" [] c = "l" -> "L" [] OTHER -> c
Lower(c) == CASE c = "N" -> "n" [] c = "L" -> "l" [] OTHER -> c

CapitalizeKeepRest(s) ==
    [i \in DOMAIN s |-> IF i = 1 THEN Upper(s[i]) ELSE s[i]]

Capitalize(s) ==
    [i \in DOMAIN s |-> IF i = 1 THEN Upper(s[i]) ELSE Lower(s[i])]

(* str.strip() and the test `not city or not city.strip()`. *)
IsSpace(c) == c = " "

RECURSIVE LStrip(_)
LStrip(s) ==
    IF s # <<>> /\ IsSpace(Head(s)) THEN LStrip(Tail(s)) ELSE s

RECURSIVE RStrip(_)
RStrip(s) ==
    IF s # <<>> /\ IsSpace(s[Len(s)])
    THEN RStrip(SubSeq(s, 1, Len(s) - 1))
    ELSE s

Strip(s) == RStrip(LStrip(s))

----------------------------------------------------------------------------
(* A datetime is a calendar date and an hour of that date. *)

Datetime(d, h) == [day |-> d, hour |-> h]
DateOf(dt) == dt.day
DtLess(a, b) == a.day < b.day \/ (a.day = b.day /\ a.hour < b.hour)

(* _build_icon_url: "" for a missing icon code. *)
BuildIconUrl(icon) ==
    IF icon = None \/ icon = Some("") THEN ""
    ELSE "https://openweathermap.org/img/wn/" \o icon[1] \o "@4x.png"

(***************************************************************************)
(* _aggregate_daily                                                        *)
(***************************************************************************)

(* grouped: the dates in the order of their first appearance (a dict keeps *)
(* insertion order) and, per date, its entries in input order. *)
RECURSIVE GroupKeys(_)
GroupKeys(forecast) ==
    IF forecast = <<>> THEN <<>>
    ELSE LET front == SubSeq(forecast, 1, Len(forecast) - 1)
             d == DateOf(forecast[Len(forecast)].datetime)
             keys == GroupKeys(front)
         IN  IF d \in Range(keys) THEN keys ELSE Append(keys, d)

Group(forecast, d) ==
    SelectSeq(forecast, LAMBDA e : DateOf(e.datetime) = d)

(* The first entry of hour 12, or None. *)
RECURSIVE FirstNoon(_)
FirstNoon(entries) ==
    IF entries = <<>> THEN None
    ELSE IF Head(entries).datetime.hour = 12 THEN Some(Head(entries))
    ELSE FirstNoon(Tail(entries))

MiddleLow(entries) == entries[((Len(entries) - 1) \div 2) + 1]

Middle(entries) == entries[(Len(entries) \div 2) + 1]

(* The last entry of hour 12, or None. *)
RECURSIVE LastNoon(_)
LastNoon(entries) ==
    IF entries = <<>> THEN None
    ELSE IF entries[Len(entries)].datetime.hour = 12
         THEN Some(entries[Len(entries)])
    ELSE LastNoon(SubSeq(entries, 1, Len(entries) - 1))

TargetLastNoon(entries) ==
    LET noon == LastNoon(entries)
    IN  IF noon # None THEN noon[1] ELSE Middle(entries)

Target(entries) ==
    LET noon == FirstNoon(entries)
    IN  IF noon # None THEN noon[1] ELSE Middle(entries)

DailyEntryZeroTemp(target) ==
    [date |-> target.datetime,
     temp |-> IF target.temp = None THEN Some(0) ELSE target.temp,
     description |-> Capitalize(target.description),
     icon_url |-> target.icon_url,
     pop |-> target.pop]

DailyEntry(target) ==
    [date |-> target.datetime,
     temp |-> target.temp,
     description |-> Capitalize(target.description),
     icon_url |-> target.icon_url,
     pop |-> target.pop]

(* list.sort(key=date): a stable insertion sort. *)
RECURSIVE InsertByDate(_, _)
InsertByDate(sorted, e) ==
    IF sorted = <<>> THEN <<e>>
    ELSE IF DtLess(e.date, Head(sorted).date) THEN <<e>> \o sorted
    ELSE <<Head(sorted)>> \o InsertByDate(Tail(sorted), e)

RECURSIVE SortByDateFrom(_, _)
SortByDateFrom(sorted, rest) ==
    IF rest = <<>> THEN sorted
    ELSE SortByDateFrom(InsertByDate(sorted, Head(rest)), Tail(rest))

NoSort(daily) == daily

SortByDate(daily) == SortByDateFrom(<<>>, daily)

AggregateDaily(forecast) ==
    LET keys == GroupKeys(forecast)
        daily == [i \in DOMAIN keys |->
                    DailyEntry(Target(Group(forecast, keys[i])))]
    IN  SortByDate(daily)

(***************************************************************************)
(* _build_chart_data, _build_rain_probability                              *)
(***************************************************************************)

BuildChartData(daily) ==
    [i \in DOMAIN daily |-> [label |-> daily[i].date, value |-> daily[i].temp]]

(* A rain probability is kept in hundredths, as the two-decimal number the *)
(* feed gives; int(pop * 100) is computed on IEEE-754 doubles. A natural   *)
(* number too wide for one machine integer is held here as the sequence of *)
(* its digits in base Base, lowest first.                                  *)
DigitBits == 15

RECURSIVE Pow2(_)
Pow2(k) == IF k = 0 THEN 1 ELSE 2 * Pow2(k - 1)

Base == Pow2(DigitBits)

RECURSIVE Digits(_)
Digits(n) == IF n = 0 THEN <<>> ELSE <<n % Base>> \o Digits(n \div Base)

RECURSIVE ToInt(_)
ToInt(l) == IF l = <<>> THEN 0 ELSE Head(l) + Base * ToInt(Tail(l))

ShiftDigits(l, k) == [i \in 1..k |-> 0] \o l

(* Quotient and remainder of the division by a small number d. *)
RECURSIVE DivRem(_, _)
DivRem(l, d) ==
    IF l = <<>> THEN [q |-> <<>>, r |-> 0]
    ELSE LET high == DivRem(Tail(l), d)
             x == Base * high.r + Head(l)
         IN  [q |-> <<x \div d>> \o high.q, r |-> x % d]

(* Product with a small number c, plus carry. *)
RECURSIVE MulAdd(_, _, _)
MulAdd(l, c, carry) ==
    IF l = <<>> THEN Digits(carry)
    ELSE LET x == Head(l) * c + carry
         IN  <<x % Base>> \o MulAdd(Tail(l), c, x \div Base)

(* The bits of a number, lowest first, and back. *)
BitsOf(l) ==
    [i \in 1..(DigitBits * Len(l)) |->
        (l[(i - 1) \div DigitBits + 1] \div Pow2((i - 1) % DigitBits)) % 2]

RECURSIVE BitsValue(_)
BitsValue(b) == IF b = <<>> THEN 0 ELSE Head(b) + 2 * BitsValue(Tail(b))

DigitsOf(b) ==
    [j \in 1..((Len(b) + DigitBits - 1) \div DigitBits) |->
        LET low == DigitBits * (j - 1) + 1
            high == IF DigitBits * j < Len(b) THEN DigitBits * j ELSE Len(b)
        IN  BitsValue(SubSeq(b, low, high))]

(* The position of the highest 1 bit; 0 for zero. *)
BitLen(b) ==
    IF \A i \in DOMAIN b : b[i] = 0 THEN 0
    ELSE CHOOSE i \in DOMAIN b : b[i] = 1 /\ \A j \in (i + 1)..Len(b) : b[j] = 0

(* b + 1 *)
Increment(b) ==
    [i \in 1..(Len(b) + 1) |->
        LET carry == IF \A j \in 1..(i - 1) : b[j] = 1 THEN 1 ELSE 0
        IN  IF i <= Len(b) THEN (b[i] + carry) % 2 ELSE carry]

(* A double has a significand of 53 bits. *)
MantissaBits == 53

(* The double nearest to a number: l, with `inexact` telling that the      *)
(* number is a little above l, rounded to MantissaBits significant bits,   *)
(* to nearest, ties to even. *)
RoundToDouble(l, inexact) ==
    LET b == BitsOf(l)
        drop == BitLen(b) - MantissaBits
    IN  IF drop <= 0 THEN l
        ELSE LET kept == SubSeq(b, drop + 1, Len(b))
                 half == b[drop] = 1
                 below == inexact \/ \E i \in 1..(drop - 1) : b[i] = 1
                 up == half /\ (below \/ kept[1] = 1)
                 rounded == IF up THEN Increment(kept) ELSE kept
             IN  DigitsOf([i \in 1..drop |-> 0] \o rounded)

(* Doubles are held as integers in units of Base^-ScaleDigits = 2^-60. *)
ScaleDigits == 4

(* int(pop * 100) for pop = h/100: the double nearest to h/100, its        *)
(* product with 100 rounded to a double, cut to its integer part. *)
FloatTimes100(h) ==
    LET division == DivRem(ShiftDigits(Digits(h), ScaleDigits), 100)
        pop == RoundToDouble(division.q, division.r # 0)
        product == RoundToDouble(MulAdd(pop, 100, 0), FALSE)
    IN  ToInt(SubSeq(product, ScaleDigits + 1, Len(product)))

Times100 == [h \in 0..100 |-> FloatTimes100(h)]

IntTimes100(h) == Times100[h]

RECURSIVE BuildRainProbabilitySkipNull(_)
BuildRainProbabilitySkipNull(daily) ==
    IF daily = <<>> THEN <<>>
    ELSE LET rest == BuildRainProbabilitySkipNull(Tail(daily))
         IN  IF Head(daily).pop = None THEN rest
             ELSE <<[date |-> Head(daily).date,
                     probability |-> IntTimes100(Head(daily).pop[1])]>> \o rest

BuildRainProbability(daily) ==
    [i \in DOMAIN daily |->
        [date |-> daily[i].date,
         probability |-> IF daily[i].pop = None THEN 0
                         ELSE IntTimes100(daily[i].pop[1])]]

----------------------------------------------------------------------------
(* Outcomes of an invocation. *)

Pending == [kind |-> "pending"]
Return(v) == [kind |-> "return", value |-> v]
Raise(e, m) == [kind |-> "raise", exc |-> e, message |-> m]

(* What running a function gives: its outcome, the requests it issued and  *)
(* the replies it got. *)
Run(res, reqs, resps) == [result |-> res, requests |-> reqs, responses |-> resps]

----------------------------------------------------------------------------
(* config.py *)

DefaultKey == "733285f73f4b152a0b891974fe21cbea"
BASE_URL == "https://api.openweathermap.org/data/2.5/weather"
FORECAST_URL == "https://api.openweathermap.org/data/2.5/forecast"
AIR_POLLUTION_URL == "https://api.openweathermap.org/data/2.5/air_pollution"

(* _ensure_api_key *)
ApiKeyMissingEmptyOnly(key) == key = ""

ApiKeyMissing(key) == key = "" \/ key = "TU_API_KEY_AQUI"

ApiKeyError ==
    Raise("ValueError", "API key no configurada. Establece la variable de entorno OPENWEATHER_API_KEY o reemplaza API_KEY en config.py.")

----------------------------------------------------------------------------
(* What requests.get gives: it raises requests.RequestException, or        *)
(* returns a response with a status code and a body. A body is text that   *)
(* is no JSON, a JSON value that is no object, or a JSON object (its       *)
(* "message" member, and the members the endpoint defines, in data).       *)

ConnectionFailure(data) ==
    [raised |-> TRUE, status |-> 0,
     body |-> [shape |-> "text", text |-> "", message |-> None, data |-> data]]

Response(status, body) == [raised |-> FALSE, status |-> status, body |-> body]

TextBody(text, data) ==
    [shape |-> "text", text |-> text, message |-> None, data |-> data]
ArrayBody(data) ==
    [shape |-> "array", text |-> "[]", message |-> None, data |-> data]
ObjectBody(message, data) ==
    [shape |-> "object", text |-> "{}", message |-> message, data |-> data]

(* dict.get(key, default) of a member that is absent (None) or present. *)
Get(member, default) == IF member = None THEN default ELSE member[1]

ErrorBodies(data) ==
    { TextBody("", data), TextBody("Bad Gateway", data), ArrayBody(data),
      ObjectBody(None, data), ObjectBody(Some("city not found"), data) }

(* The handling of a status other than 200 (lines 74-79, 137-142). *)
StatusError(prefix, body) ==
    CASE body.shape = "object" ->
            Raise("WeatherServiceError",
                  prefix \o Get(body.message, "Error desconocido"))
      [] body.shape = "text" ->
            Raise("WeatherServiceError",
                  prefix \o (IF body.text = "" THEN "Error desconocido" ELSE body.text))
      [] OTHER ->
            Raise("AttributeError", "'list' object has no attribute 'get'")

(* response.json() of a body that is no JSON raises JSONDecodeError, a     *)
(* ValueError: the classes an `except` clause matches for each exception.  *)
Classes(exc) ==
    IF exc = "JSONDecodeError" THEN {"JSONDecodeError", "ValueError"} ELSE {exc}

JsonError == Raise("JSONDecodeError", "Expecting value: line 1 column 1 (char 0)")

NotADict == Raise("AttributeError", "'list' object has no attribute 'get'")

(***************************************************************************)
(* get_current_weather                                                     *)
(***************************************************************************)

NoCurrent == [name |-> None, description |-> None, icon |-> None,
              temp |-> None, lat |-> None, lon |-> None]

CurrentData ==
    { NoCurrent,
      [name |-> Some(<<"L">>), description |-> Some(<<"n", "N">>),
       icon |-> Some("10d"), temp |-> Some(217), lat |-> None, lon |-> None],
      [name |-> Some(<<"L">>), description |-> Some(<<"n", "N">>),
       icon |-> Some("10d"), temp |-> Some(217), lat |-> Some(-12), lon |-> None],
      [name |-> Some(<<"L">>), description |-> Some(<<"n", "N">>),
       icon |-> Some("10d"), temp |-> Some(217), lat |-> Some(-12), lon |-> Some(-77)] }

CurrentReplies ==
    {ConnectionFailure(NoCurrent)}
    \cup {Response(404, b) : b \in ErrorBodies(NoCurrent)}
    \cup {Response(200, TextBody("<html>", NoCurrent)),
          Response(200, ArrayBody(NoCurrent))}
    \cup {Response(200, ObjectBody(None, d)) : d \in CurrentData}

(* The replies and the field values drawn for the window. *)
UiReplies ==
    { ConnectionFailure(NoCurrent),
      Response(404, ObjectBody(Some("city not found"), NoCurrent)),
      Response(404, ArrayBody(NoCurrent)),
      Response(200, TextBody("<html>", NoCurrent)),
      Response(200, ObjectBody(None, NoCurrent)),
      Response(200, ObjectBody(None,
          [name |-> Some(<<"L">>), description |-> Some(<<"n", "N">>),
           icon |-> Some("10d"), temp |-> Some(217),
           lat |-> Some(-12), lon |-> Some(-77)])) }

UiCities == { <<>>, <<" ">>, <<" ", "L">> }

CurrentRequest(city, units, key) ==
    [url |-> BASE_URL,
     params |-> [q |-> city, appid |-> key, units |-> units, lang |-> "es"]]

(* Lines 81-117 (the members the dashboard reads further on; the others    *)
(* are copied the same way). *)
ParseCurrent(city, units, body) ==
    CASE body.shape = "text" -> JsonError
      [] body.shape = "array" -> NotADict
      [] OTHER ->
            Return([city |-> Get(body.data.name, city),
                    temp |-> body.data.temp,
                    description |-> Capitalize(Get(body.data.description, <<>>)),
                    icon_url |-> BuildIconUrl(body.data.icon),
                    units |-> units,
                    lat |-> body.data.lat,
                    lon |-> body.data.lon])

IsBlank(city) == city = <<>> \/ Strip(city) = <<>>

GetCurrentWeather(city, units, key, reply) ==
    IF IsBlank(city)
    THEN Run(Raise("ValueError",
                   "Por favor ingresa una ciudad para consultar el clima."),
             <<>>, <<>>)
    ELSE IF ApiKeyMissing(key) THEN Run(ApiKeyError, <<>>, <<>>)
    ELSE LET sent == <<CurrentRequest(city, units, key)>>
         IN  IF reply.raised
             THEN Run(Raise("WeatherServiceError",
                            "No se pudo conectar al servicio de clima."),
                      sent, <<reply>>)
             ELSE IF reply.status # 200
             THEN Run(StatusError("Error desde la API: ", reply.body),
                      sent, <<reply>>)
             ELSE Run(ParseCurrent(city, units, reply.body), sent, <<reply>>)

(***************************************************************************)
(* _fetch_forecast                                                         *)
(***************************************************************************)

(* A timestamp counts hours; datetime.fromtimestamp gives its date and     *)
(* hour. *)
FromTimestamp(ts) == Datetime(ts \div 24, ts % 24)

(* An item of the feed's "list": dt, main.temp, weather[0].description,    *)
(* weather[0].icon, and pop (absent, or present with a number or null). *)
Item(dt, temp, description, icon, pop) ==
    [dt |-> dt, temp |-> temp, description |-> description, icon |-> icon,
     pop |-> pop]

(* A feed with one reading on each of MaxDates dates; the second has no     *)
(* temperature, the third is at 0 degrees. *)
SpanningFeed ==
    [d \in 1..MaxDates |->
        Item(Some(24 * d + 12),
             IF d = 2 THEN None ELSE Some(10 * (d - 3)),
             Some(<<"n">>), Some("01d"), Some(Some(10 * d)))]

ForecastLists ==
    { <<>>,
      << Item(Some(57), Some(180), Some(<<"n", "N">>), Some("10d"), Some(Some(29))),
         Item(Some(36), Some(150), Some(<<"l">>), Some("01d"), Some(Some(42))),
         Item(Some(33), None, None, None, None),
         Item(Some(63), Some(200), Some(<<"n">>), None, Some(None)) >>,
      << Item(None, Some(90), Some(<<"n">>), Some("01n"), Some(Some(100))) >>,
      SpanningFeed }

NoForecast == [list |-> None]

ForecastData == {NoForecast} \cup {[list |-> Some(l)] : l \in ForecastLists}

ForecastReplies ==
    {ConnectionFailure(NoForecast)}
    \cup {Response(404, b) : b \in ErrorBodies(NoForecast)}
    \cup {Response(200, TextBody("<html>", NoForecast)),
          Response(200, ArrayBody(NoForecast))}
    \cup {Response(200, ObjectBody(None, d)) : d \in ForecastData}

ForecastRequest(city, units, key) ==
    [url |-> FORECAST_URL,
     params |-> [q |-> city, appid |-> key, units |-> units, lang |-> "es"]]

(* Lines 149-158. *)
ParseItem(item) ==
    [datetime |-> FromTimestamp(Get(item.dt, 0)),
     temp |-> item.temp,
     description |-> Get(item.description, <<>>),
     icon_url |-> BuildIconUrl(item.icon),
     pop |-> Get(item.pop, Some(0))]

ParseForecast(body) ==
    CASE body.shape = "text" -> JsonError
      [] body.shape = "array" -> NotADict
      [] OTHER ->
            LET list == Get(body.data.list, <<>>)
            IN  Return([i \in DOMAIN list |-> ParseItem(list[i])])

FetchForecast(city, units, key, reply) ==
    IF ApiKeyMissing(key) THEN Run(ApiKeyError, <<>>, <<>>)
    ELSE LET sent == <<ForecastRequest(city, units, key)>>
         IN  IF reply.raised
             THEN Run(Raise("WeatherServiceError",
                            "No se pudo obtener el pronóstico de clima."),
                      sent, <<reply>>)
             ELSE IF reply.status # 200
             THEN Run(StatusError("Error en pronóstico: ", reply.body),
                      sent, <<reply>>)
             ELSE Run(ParseForecast(reply.body), sent, <<reply>>)

(***************************************************************************)
(* _get_air_quality                                                        *)
(***************************************************************************)

(* An element of the feed's "list": a JSON object with main.aqi and        *)
(* components (a dict, here a set of <<pollutant, concentration>>), or a   *)
(* JSON value that is no object. *)
AirItem(object, aqi, components) ==
    [object |-> object, aqi |-> aqi, components |-> components]

AqiValues == 0..6

SomeComponents == {<<"pm2_5", 8>>, <<"o3", 60>>}

AirLists ==
    { <<>>,
      <<AirItem(FALSE, None, None)>>,
      <<AirItem(TRUE, None, None)>>,
      <<AirItem(TRUE, None, Some(SomeComponents))>> }
    \cup {<<AirItem(TRUE, Some(n), Some(SomeComponents))>> : n \in AqiValues}
    \cup {<<AirItem(TRUE, Some(3), None), AirItem(TRUE, Some(5), None)>>}

NoAir == [list |-> None]

AirData == {NoAir} \cup {[list |-> Some(l)] : l \in AirLists}

AirReplies ==
    {ConnectionFailure(NoAir)}
    \cup {Response(404, b) : b \in ErrorBodies(NoAir)}
    \cup {Response(200, TextBody("<html>", NoAir)),
          Response(200, ArrayBody(NoAir))}
    \cup {Response(200, ObjectBody(None, d)) : d \in AirData}

AirRequest(lat, lon, key) ==
    [url |-> AIR_POLLUTION_URL,
     params |-> [lat |-> lat, lon |-> lon, appid |-> key]]

AirSummary(aqi, label, components) ==
    [aqi |-> aqi, label |-> label, value |-> aqi, components |-> components]

LabelsUpTo4(aqi) ==
    CASE aqi = Some(1) -> "Bueno"
      [] aqi = Some(2) -> "Aceptable"
      [] aqi = Some(3) -> "Moderado"
      [] aqi = Some(4) -> "Pobre"
      [] OTHER -> "Sin datos"

(* labels.get(aqi_value, "Sin datos") *)
Labels(aqi) ==
    CASE aqi = Some(1) -> "Bueno"
      [] aqi = Some(2) -> "Aceptable"
      [] aqi = Some(3) -> "Moderado"
      [] aqi = Some(4) -> "Pobre"
      [] aqi = Some(5) -> "Muy pobre"
      [] OTHER -> "Sin datos"

(* Lines 247-265. *)
ParseAir(body) ==
    CASE body.shape = "text" -> JsonError
      [] body.shape = "array" -> NotADict
      [] OTHER ->
            LET list == Get(body.data.list, <<AirItem(TRUE, None, None)>>)
            IN  IF list = <<>>
                THEN Raise("IndexError", "list index out of range")
                ELSE IF ~list[1].object
                THEN Raise("AttributeError",
                           "'NoneType' object has no attribute 'get'")
                ELSE Return(AirSummary(list[1].aqi, Labels(list[1].aqi),
                                       Get(list[1].components, {})))

CoordinatesAbsentEither(lat, lon) == lat = None /\ lon = None

CoordinatesAbsent(lat, lon) == lat = None \/ lon = None

GetAirQuality(lat, lon, key, reply) ==
    IF CoordinatesAbsent(lat, lon)
    THEN Run(Return(AirSummary(None, "Sin datos", {})), <<>>, <<>>)
    ELSE IF ApiKeyMissing(key) THEN Run(ApiKeyError, <<>>, <<>>)
    ELSE LET sent == <<AirRequest(lat, lon, key)>>
         IN  IF reply.raised
             THEN Run(Return(AirSummary(None, "Sin conexión", {})),
                      sent, <<reply>>)
             ELSE IF reply.status # 200
             THEN Run(Return(AirSummary(None, "No disponible", {})),
                      sent, <<reply>>)
             ELSE Run(ParseAir(reply.body), sent, <<reply>>)

(***************************************************************************)
(* get_dashboard_weather                                                   *)
(***************************************************************************)

(* The air-quality call made before the forecast call. *)
GetDashboardWeatherAirFirst(city, units, key, currentReply, forecastReply, airReply) ==
    LET current == GetCurrentWeather(city, units, key, currentReply)
    IN  IF current.result.kind = "raise" THEN current
        ELSE
        LET air == GetAirQuality(current.result.value.lat,
                                 current.result.value.lon, key, airReply)
            reqs2 == current.requests \o air.requests
            resps2 == current.responses \o air.responses
        IN  IF air.result.kind = "raise"
            THEN Run(air.result, reqs2, resps2)
            ELSE
            LET forecast == FetchForecast(city, units, key, forecastReply)
                reqs3 == reqs2 \o forecast.requests
                resps3 == resps2 \o forecast.responses
            IN  IF forecast.result.kind = "raise"
                THEN Run(forecast.result, reqs3, resps3)
                ELSE
                LET daily == AggregateDaily(forecast.result.value)
                IN  Run(Return([current |-> current.result.value,
                                forecast |-> daily,
                                chart_data |-> BuildChartData(daily),
                                air_quality |-> air.result.value,
                                rain_probability |-> BuildRainProbability(daily)]),
                        reqs3, resps3)

GetDashboardWeather(city, units, key, currentReply, forecastReply, airReply) ==
    LET current == GetCurrentWeather(city, units, key, currentReply)
    IN  IF current.result.kind = "raise" THEN current
        ELSE
        LET forecast == FetchForecast(city, units, key, forecastReply)
            reqs2 == current.requests \o forecast.requests
            resps2 == current.responses \o forecast.responses
        IN  IF forecast.result.kind = "raise"
            THEN Run(forecast.result, reqs2, resps2)
            ELSE
            LET daily == AggregateDaily(forecast.result.value)
                chart_data == BuildChartData(daily)
                rain_probability == BuildRainProbability(daily)
                air == GetAirQuality(current.result.value.lat,
                                     current.result.value.lon, key, airReply)
                reqs3 == reqs2 \o air.requests
                resps3 == resps2 \o air.responses
            IN  IF air.result.kind = "raise"
                THEN Run(air.result, reqs3, resps3)
                ELSE Run(Return([current |-> current.result.value,
                                 forecast |-> daily,
                                 chart_data |-> chart_data,
                                 air_quality |-> air.result.value,
                                 rain_probability |-> rain_probability]),
                         reqs3, resps3)

(***************************************************************************)
(* HomePage, create_weather_chart, create_rain_probability_chart           *)
(***************************************************************************)

(* strftime("%a") of a date counted in days from 1970-01-01, a Thursday. *)
Weekdays == <<"Thu", "Fri", "Sat", "Sun", "Mon", "Tue", "Wed">>

GetDayName(dt) == IF dt = None THEN "" ELSE Weekdays[(dt[1].day % 7) + 1]

CardsShown == 5

Card(entry, units) ==
    [day_name |-> GetDayName(Some(entry.date)),
     icon_url |-> entry.icon_url,
     temp |-> entry.temp,
     description |-> entry.description,
     units |-> units]

ForecastCardsAll(weather_data) ==
    LET forecast == weather_data.forecast
    IN  [i \in DOMAIN forecast |-> Card(forecast[i], weather_data.current.units)]

(* _build_forecast_cards: one card for each of forecast[:5]. *)
ForecastCards(weather_data) ==
    LET forecast == weather_data.forecast
        shown == SubSeq(forecast, 1, IF Len(forecast) < CardsShown
                                     THEN Len(forecast) ELSE CardsShown)
    IN  [i \in DOMAIN shown |-> Card(shown[i], weather_data.current.units)]

(* entry.get("value") or 0 *)
PointValue(value) == IF value = None \/ value = Some(0) THEN 0 ELSE value[1]

Point(x, entry) ==
    [x |-> x, y |-> PointValue(entry.value),
     label |-> GetDayName(Some(entry.label))]

RECURSIVE ChartPointsSkipNull(_)
ChartPointsSkipNull(chart_data) ==
    IF chart_data = <<>> THEN <<>>
    ELSE LET points == ChartPointsSkipNull(SubSeq(chart_data, 1, Len(chart_data) - 1))
             entry == chart_data[Len(chart_data)]
         IN  IF entry.value = None THEN points
             ELSE Append(points, Point(Len(points), entry))

(* create_weather_chart: a point for each entry, at x = 0, 1, ... *)
ChartPoints(chart_data) ==
    [i \in DOMAIN chart_data |-> Point(i - 1, chart_data[i])]

(* create_rain_probability_chart: a bar for each entry. *)
RainBars(rain_data) ==
    [i \in DOMAIN rain_data |->
        [day_name |-> GetDayName(Some(rain_data[i].date)),
         probability |-> rain_data[i].probability]]

NoPage == [cards |-> <<>>, points |-> <<>>, bars |-> <<>>]

(* HomePage(weather_data).build() *)
HomePage(weather_data) ==
    [cards |-> ForecastCards(weather_data),
     points |-> ChartPoints(weather_data.chart_data),
     bars |-> RainBars(weather_data.rain_probability)]

(***************************************************************************)
(* main.py: the window and handle_search                                   *)
(***************************************************************************)

(* The labels, written without their degree sign. *)
UNITS_LABELS == [metric |-> "C", imperial |-> "F"]

(* f"{value:.1f}{label}", or "-" without a value. *)
FormatTemperature(value, units) ==
    IF value = None THEN <<"-">> ELSE <<value[1], UNITS_LABELS[units]>>

(* build_weather_card: the texts of the card that depend on the weather. *)
BuildWeatherCard(data) ==
    [title |-> data.city,
     temp_main |-> FormatTemperature(data.temp, data.units),
     description |-> data.description,
     icon |-> data.icon_url]

RED_200 == "red200"
GREEN_ACCENT_200 == "greenAccent200"

(* The controls as main() creates them. *)
NoStatus == [value |-> "", color |-> RED_200]
UnitsDropdown == "metric"

(* search_button.on_click and city_input.on_submit both call handle_search; *)
(* each event is handled in a thread of its own. *)
Handlers == {"on_click", "on_submit"}

NoRun == [pc |-> "idle", city |-> <<>>, outcome |-> Pending]

BlankCityMessage == "Por favor ingresa una ciudad para buscar."
SuccessMessage == "Actualizado correctamente"

(* A run moves to statement `to`. *)
Goto(h, to) == runs' = [runs EXCEPT ![h].pc = to]

(* The event arrives and its thread starts. *)
Trigger(h) ==
    /\ runs[h].pc = "idle"
    /\ Goto(h, "clear_status")
    /\ UNCHANGED <<API_KEY, service, city_input, status_text, weather_container, progress_ring>>

(* clear_status() *)
ClearStatus(h) ==
    /\ runs[h].pc = "clear_status"
    /\ status_text' = [status_text EXCEPT !.value = ""]
    /\ Goto(h, "read_city")
    /\ UNCHANGED <<API_KEY, service, city_input, weather_container, progress_ring>>

(* city = city_input.value.strip() if city_input.value else ""; if not city *)
ReadCity(h) ==
    /\ runs[h].pc = "read_city"
    /\ LET city == IF city_input = <<>> THEN <<>> ELSE Strip(city_input)
       IN  runs' = [runs EXCEPT ![h].city = city,
                                ![h].pc = IF city = <<>> THEN "blank_status"
                                          ELSE "toggle_on"]
    /\ UNCHANGED <<API_KEY, service, city_input, status_text, weather_container, progress_ring>>

(* set_status("Por favor ingresa una ciudad para buscar.") *)
BlankStatus(h) ==
    /\ runs[h].pc = "blank_status"
    /\ status_text' = [value |-> BlankCityMessage, color |-> RED_200]
    /\ Goto(h, "blank_card")
    /\ UNCHANGED <<API_KEY, service, city_input, weather_container, progress_ring>>

(* update_weather_card(None); return *)
BlankCard(h) ==
    /\ runs[h].pc = "blank_card"
    /\ weather_container' = None
    /\ runs' = [runs EXCEPT ![h].pc = "returned",
                            ![h].outcome = Raise("blank", BlankCityMessage)]
    /\ UNCHANGED <<API_KEY, service, city_input, status_text, progress_ring>>

(* toggle_loading(True); page.update() *)
ToggleOn(h) ==
    /\ runs[h].pc = "toggle_on"
    /\ progress_ring' = TRUE
    /\ Goto(h, "fetch")
    /\ UNCHANGED <<API_KEY, service, city_input, status_text, weather_container>>

(* Where the try statement goes on after get_current_weather. *)
AfterFetch(outcome) ==
    IF outcome.kind = "return" THEN "ok_card"
    ELSE IF "ValueError" \in Classes(outcome.exc) THEN "error_status"
    ELSE IF "WeatherServiceError" \in Classes(outcome.exc) THEN "error_status"
    ELSE "finally"

FetchNoFinally(h) ==
    /\ runs[h].pc = "fetch"
    /\ \E reply \in UiReplies :
          LET outcome == GetCurrentWeather(runs[h].city, UnitsDropdown,
                                           API_KEY, reply).result
              to == AfterFetch(outcome)
          IN  runs' = [runs EXCEPT ![h].outcome = outcome,
                                   ![h].pc = IF to = "finally" THEN "returned"
                                             ELSE to]
    /\ UNCHANGED <<API_KEY, service, city_input, status_text, weather_container, progress_ring>>

(* weather = get_current_weather(city, units_dropdown.value) *)
Fetch(h) ==
    /\ runs[h].pc = "fetch"
    /\ \E reply \in UiReplies :
          LET outcome == GetCurrentWeather(runs[h].city, UnitsDropdown,
                                           API_KEY, reply).result
          IN  runs' = [runs EXCEPT ![h].outcome = outcome,
                                   ![h].pc = AfterFetch(outcome)]
    /\ UNCHANGED <<API_KEY, service, city_input, status_text, weather_container, progress_ring>>

(* except ...: set_status(str(exc)) *)
ErrorStatus(h) ==
    /\ runs[h].pc = "error_status"
    /\ status_text' = [value |-> runs[h].outcome.message, color |-> RED_200]
    /\ Goto(h, "error_card")
    /\ UNCHANGED <<API_KEY, service, city_input, weather_container, progress_ring>>

(* except ...: update_weather_card(None) *)
ErrorCard(h) ==
    /\ runs[h].pc = "error_card"
    /\ weather_container' = None
    /\ Goto(h, "finally")
    /\ UNCHANGED <<API_KEY, service, city_input, status_text, progress_ring>>

(* else: update_weather_card(weather) *)
OkCard(h) ==
    /\ runs[h].pc = "ok_card"
    /\ weather_container' = Some(BuildWeatherCard(runs[h].outcome.value))
    /\ Goto(h, "ok_status")
    /\ UNCHANGED <<API_KEY, service, city_input, status_text, progress_ring>>

(* else: set_status("Actualizado correctamente", GREEN_ACCENT_200) *)
OkStatus(h) ==
    /\ runs[h].pc = "ok_status"
    /\ status_text' = [value |-> SuccessMessage, color |-> GREEN_ACCENT_200]
    /\ Goto(h, "finally")
    /\ UNCHANGED <<API_KEY, service, city_input, weather_container, progress_ring>>

(* finally: toggle_loading(False) *)
ToggleOff(h) ==
    /\ runs[h].pc = "finally"
    /\ progress_ring' = FALSE
    /\ Goto(h, "returned")
    /\ UNCHANGED <<API_KEY, service, city_input, status_text, weather_container>>

(* The handler has returned, or its exception has left it; the thread ends. *)
Exit(h) ==
    /\ runs[h].pc = "returned"
    /\ runs' = [runs EXCEPT ![h] = NoRun]
    /\ UNCHANGED <<API_KEY, service, city_input, status_text, weather_container, progress_ring>>

(* The statements of a run, once it is started. *)
Step(h) ==
    \/ ClearStatus(h)
    \/ ReadCity(h)
    \/ BlankStatus(h)
    \/ BlankCard(h)
    \/ ToggleOn(h)
    \/ Fetch(h)
    \/ ErrorStatus(h)
    \/ ErrorCard(h)
    \/ OkCard(h)
    \/ OkStatus(h)
    \/ ToggleOff(h)
    \/ Exit(h)

(* The user edits the text field. *)
TypeCity ==
    /\ \E c \in UiCities : city_input' = c
    /\ UNCHANGED <<API_KEY, service, status_text, weather_container, progress_ring, runs>>

----------------------------------------------------------------------------
(* Inputs of _aggregate_daily. *)

Days == 1..MaxDay
Hours == {9, 12, 15}

(* What a parsed forecast entry carries besides its time. *)
Payloads ==
    { [temp |-> None, description |-> <<"n", "N">>, icon_url |-> "", pop |-> Some(0)],
      [temp |-> Some(217), description |-> <<"l", "l">>,
       icon_url |-> BuildIconUrl(Some("10d")), pop |-> Some(42)] }

Entry(dt, p) ==
    [datetime |-> dt, temp |-> p.temp, description |-> p.description,
     icon_url |-> p.icon_url, pop |-> p.pop]

Entries == {Entry(Datetime(d, h), p) : d \in Days, h \in Hours, p \in Payloads}

Alphabet == {"n", "N", " "}
Descriptions == SeqsUpTo(Alphabet, MaxDescLen)

(* One entry per condition text. *)
DescriptionForecasts ==
    { <<Entry(Datetime(1, 12),
              [temp |-> Some(150), description |-> s,
               icon_url |-> "", pop |-> Some(100)])>> : s \in Descriptions }

(* A day without a noon reading: hours 0,3,6,9,15,18,21, temperature = hour. *)
NoonlessHours == <<0, 3, 6, 9, 15, 18, 21>>
NoonlessDay ==
    [i \in DOMAIN NoonlessHours |->
        Entry(Datetime(1, NoonlessHours[i]),
              [temp |-> Some(NoonlessHours[i]), description |-> <<"n">>,
               icon_url |-> "", pop |-> Some(0)])]

Forecasts == SeqsUpTo(Entries, MaxLen) \cup DescriptionForecasts \cup {NoonlessDay}

(* Inputs of the series builders: daily lists as _aggregate_daily leaves    *)
(* them, one entry per date, in the order of the dates. *)
SeriesPayloads ==
    { [temp |-> None, description |-> <<>>, icon_url |-> "", pop |-> None],
      [temp |-> Some(217), description |-> <<"l">>,
       icon_url |-> BuildIconUrl(Some("10d")), pop |-> Some(42)] }

DailyOn(dates, payload) ==
    [i \in 1..Cardinality(dates) |->
        LET d == CHOOSE x \in dates : Cardinality({y \in dates : y < x}) = i - 1
        IN  DailyEntry(Entry(Datetime(d, 12), payload[d]))]

DailyLists ==
    UNION { {DailyOn(dates, payload) : payload \in [dates -> SeriesPayloads]} :
            dates \in SUBSET (1..MaxDates) }

(* One entry for each probability of two decimals, and one without. *)
Probabilities == {None} \cup {Some(h) : h \in 0..100}

ProbabilityLists ==
    { <<DailyEntry(Entry(Datetime(1, 12),
                         [temp |-> Some(0), description |-> <<"n">>,
                          icon_url |-> "", pop |-> p]))>> : p \in Probabilities }

(* Inputs of the upstream calls. *)
Keys == {"", "TU_API_KEY_AQUI", DefaultKey}
Cities == { <<>>, <<" ">>, <<" ", " ">>, <<"L">>, <<" ", "L">> }
Units == {"metric", "imperial"}
Coordinates == {None, Some(-12), Some(0)}

NoArgs == [city |-> <<>>, units |-> "metric", lat |-> None, lon |-> None,
           forecast |-> <<>>, daily |-> <<>>]

----------------------------------------------------------------------------

InitAggregate ==
    /\ op = "_aggregate_daily"
    /\ \E f \in Forecasts : args = [NoArgs EXCEPT !.forecast = f]
    /\ API_KEY = DefaultKey

InitCity ==
    /\ op \in {"get_current_weather", "_fetch_forecast", "get_dashboard_weather"}
    /\ \E c \in Cities, u \in Units :
          args = [NoArgs EXCEPT !.city = c, !.units = u]
    /\ API_KEY \in Keys

InitAir ==
    /\ op = "_get_air_quality"
    /\ \E lat \in Coordinates, lon \in Coordinates :
          args = [NoArgs EXCEPT !.lat = lat, !.lon = lon]
    /\ API_KEY \in Keys

InitSeries ==
    /\ op \in {"_build_chart_data", "_build_rain_probability"}
    /\ \E d \in DailyLists \cup ProbabilityLists : args = [NoArgs EXCEPT !.daily = d]
    /\ API_KEY = DefaultKey

Init ==
    /\ (InitAggregate \/ InitCity \/ InitAir \/ InitSeries)
    /\ pc = "called"
    /\ requests = <<>>
    /\ responses = <<>>
    /\ result = Pending
    /\ home = NoPage
    /\ city_input = <<>>
    /\ status_text = NoStatus
    /\ weather_container = None
    /\ progress_ring = FALSE
    /\ runs = [h \in Handlers |-> NoRun]

(* The invocation ends as `run` says. *)
Finish(run) ==
    /\ result' = run.result
    /\ requests' = run.requests
    /\ responses' = run.responses
    /\ pc' = "done"
    /\ UNCHANGED <<API_KEY, op, args, home, window>>

RunAggregateDaily ==
    /\ pc = "called"
    /\ op = "_aggregate_daily"
    /\ Finish(Run(Return(AggregateDaily(args.forecast)), <<>>, <<>>))

RunGetCurrentWeather ==
    /\ pc = "called"
    /\ op = "get_current_weather"
    /\ \E reply \in CurrentReplies :
          Finish(GetCurrentWeather(args.city, args.units, API_KEY, reply))

RunFetchForecast ==
    /\ pc = "called"
    /\ op = "_fetch_forecast"
    /\ \E reply \in ForecastReplies :
          Finish(FetchForecast(args.city, args.units, API_KEY, reply))

RunGetAirQuality ==
    /\ pc = "called"
    /\ op = "_get_air_quality"
    /\ \E reply \in AirReplies :
          Finish(GetAirQuality(args.lat, args.lon, API_KEY, reply))

RunGetDashboardWeather ==
    /\ pc = "called"
    /\ op = "get_dashboard_weather"
    /\ \E currentReply \in CurrentReplies, forecastReply \in ForecastReplies,
          airReply \in AirReplies :
          Finish(GetDashboardWeather(args.city, args.units, API_KEY,
                                     currentReply, forecastReply, airReply))

RunBuildChartData ==
    /\ pc = "called"
    /\ op = "_build_chart_data"
    /\ Finish(Run(Return(BuildChartData(args.daily)), <<>>, <<>>))

RunBuildRainProbability ==
    /\ pc = "called"
    /\ op = "_build_rain_probability"
    /\ Finish(Run(Return(BuildRainProbability(args.daily)), <<>>, <<>>))

(* The page drawn from what was returned. *)
Render(page) ==
    /\ pc = "done"
    /\ result.kind = "return"
    /\ home' = page
    /\ pc' = "rendered"
    /\ UNCHANGED <<API_KEY, op, args, requests, responses, result, window>>

BuildHomePage ==
    /\ op = "get_dashboard_weather"
    /\ Render(HomePage(result.value))

CreateWeatherChart ==
    /\ op = "_build_chart_data"
    /\ Render([NoPage EXCEPT !.points = ChartPoints(result.value)])

CreateRainProbabilityChart ==
    /\ op = "_build_rain_probability"
    /\ Render([NoPage EXCEPT !.bars = RainBars(result.value)])

Next ==
    \/ RunAggregateDaily
    \/ RunGetCurrentWeather
    \/ RunFetchForecast
    \/ RunGetAirQuality
    \/ RunGetDashboardWeather
    \/ RunBuildChartData
    \/ RunBuildRainProbability
    \/ BuildHomePage
    \/ CreateWeatherChart
    \/ CreateRainProbabilityChart

Spec == Init /\ [][Next]_vars

----------------------------------------------------------------------------
(* The window. *)

UiInit ==
    /\ API_KEY \in Keys
    /\ op = "main"
    /\ args = NoArgs
    /\ pc = "called"
    /\ requests = <<>>
    /\ responses = <<>>
    /\ result = Pending
    /\ home = NoPage
    /\ city_input = <<>>
    /\ status_text = NoStatus
    /\ weather_container = None
    /\ progress_ring = FALSE
    /\ runs = [h \in Handlers |-> NoRun]

UiNext ==
    \/ TypeCity
    \/ \E h \in Handlers : Trigger(h) \/ Step(h)

UiSpec == UiInit /\ [][UiNext]_vars

(* A thread that was started goes on running, and the request of a fetch   *)
(* ends, with a reply or a failure, within its timeout. *)
FairUiSpec == UiSpec /\ \A h \in Handlers : WF_vars(Step(h))

----------------------------------------------------------------------------
(***************************************************************************)
(* Properties of _aggregate_daily.                                         *)
(***************************************************************************)

AggregateDone == op = "_aggregate_daily" /\ pc = "done"

Daily == result.value

(* The positions of the input samples of calendar date d. *)
IndicesOf(d) ==
    {i \in DOMAIN args.forecast : args.forecast[i].datetime.day = d}

NoonIndicesOf(d) ==
    {i \in IndicesOf(d) : args.forecast[i].datetime.hour = 12}

Least(S) == CHOOSE i \in S : \A j \in S : i <= j

(* The element of S with exactly n elements of S below it. *)
Nth(S, n) == CHOOSE i \in S : Cardinality({j \in S : j < i}) = n

(* The entry carries the time, temperature, icon and rain probability of   *)
(* the sample. *)
CopiedFrom(entry, sample) ==
    /\ entry.date = sample.datetime
    /\ entry.temp = sample.temp
    /\ entry.icon_url = sample.icon_url
    /\ entry.pop = sample.pop

InputDates == {args.forecast[i].datetime.day : i \in DOMAIN args.forecast}

(* C1: the output of _aggregate_daily has exactly one entry per distinct   *)
(* calendar date of its input: the output dates are the input dates, they  *)
(* are strictly ascending, and an empty input returns an empty output      *)
(* without raising. *)
C1_OneEntryPerDate ==
    AggregateDone =>
        /\ result.kind = "return"
        /\ {Daily[k].date.day : k \in DOMAIN Daily} = InputDates
        /\ Len(Daily) = Cardinality(InputDates)
        /\ \A j, k \in DOMAIN Daily : j < k => Daily[j].date.day < Daily[k].date.day
        /\ (args.forecast = <<>> => Daily = <<>>)

(* A date first appears after a later date, and its group is split. *)
C1_Witness ==
    /\ AggregateDone
    /\ Len(args.forecast) = 3
    /\ args.forecast[1].datetime.day = 2
    /\ args.forecast[2].datetime.day = 1
    /\ args.forecast[3].datetime.day = 2
    /\ Len(Daily) = 2

(* C2: a day with a sample of hour 12 is represented by the first such     *)
(* sample of the day in input order. *)
C2_FirstNoonSelected ==
    AggregateDone =>
        \A k \in DOMAIN Daily :
            LET noons == NoonIndicesOf(Daily[k].date.day)
            IN  noons # {} => CopiedFrom(Daily[k], args.forecast[Least(noons)])

(* Two different noon samples in one day, after a sample of another hour. *)
C2_Witness ==
    /\ AggregateDone
    /\ Len(args.forecast) = 3
    /\ IndicesOf(1) = {1, 2, 3}
    /\ NoonIndicesOf(1) = {2, 3}
    /\ args.forecast[2].temp # args.forecast[3].temp
    /\ CopiedFrom(Daily[1], args.forecast[2])

(* C3: a day of N samples none of which has hour 12 is represented by the  *)
(* sample at index floor(N/2) (from 0) of the day in input order; hours    *)
(* 0,3,6,9,15,18,21 select hour 9; a day of one sample selects it. *)
C3_MiddleSelected ==
    AggregateDone =>
        /\ \A k \in DOMAIN Daily :
              LET I == IndicesOf(Daily[k].date.day)
              IN  /\ NoonIndicesOf(Daily[k].date.day) = {} =>
                        CopiedFrom(Daily[k],
                                   args.forecast[Nth(I, Cardinality(I) \div 2)])
                  /\ Cardinality(I) = 1 =>
                        CopiedFrom(Daily[k], args.forecast[Least(I)])
        /\ (args.forecast = NoonlessDay =>
                Len(Daily) = 1 /\ Daily[1].date.hour = 9)

C3_Witness ==
    /\ AggregateDone
    /\ args.forecast = NoonlessDay
    /\ Daily[1].date = Datetime(1, 9)
    /\ Daily[1].temp = Some(9)

(* The position of the sample that represents date d. *)
RepresentativeOf(d) ==
    IF NoonIndicesOf(d) # {} THEN Least(NoonIndicesOf(d))
    ELSE Nth(IndicesOf(d), Cardinality(IndicesOf(d)) \div 2)

(* C4: every entry takes its date, temperature, icon and rain probability  *)
(* from the one representative sample of its day, and a representative     *)
(* without temperature gives an entry whose temperature is None, not 0. *)
C4_FieldsFromOneSample ==
    AggregateDone =>
        \A k \in DOMAIN Daily :
            LET rep == args.forecast[RepresentativeOf(Daily[k].date.day)]
            IN  /\ CopiedFrom(Daily[k], rep)
                /\ rep.temp = None => Daily[k].temp = None /\ Daily[k].temp # Some(0)

(* A day of two samples that differ in every field, represented by the one *)
(* without temperature. *)
C4_Witness ==
    /\ AggregateDone
    /\ \E k \in DOMAIN Daily :
          LET I == IndicesOf(Daily[k].date.day)
          IN  /\ Cardinality(I) >= 2
              /\ \E i, j \in I : /\ args.forecast[i].temp # args.forecast[j].temp
                                 /\ args.forecast[i].pop # args.forecast[j].pop
                                 /\ args.forecast[i].icon_url # args.forecast[j].icon_url
              /\ Daily[k].temp = None

(* C5 as stated: the description is the representative's condition text    *)
(* with its first character upper-cased and every other character          *)
(* unchanged. *)
C5_RestUnchanged ==
    AggregateDone =>
        \A k \in DOMAIN Daily :
            LET text == args.forecast[RepresentativeOf(Daily[k].date.day)].description
                desc == Daily[k].description
            IN  /\ Len(desc) = Len(text)
                /\ \A i \in DOMAIN text :
                      desc[i] = IF i = 1 THEN Upper(text[i]) ELSE text[i]

(* C5 amended: the description is the representative's condition text with *)
(* its first character upper-cased and every other character lower-cased   *)
(* (str.capitalize). *)
C5_RestLowered ==
    AggregateDone =>
        \A k \in DOMAIN Daily :
            LET text == args.forecast[RepresentativeOf(Daily[k].date.day)].description
                desc == Daily[k].description
            IN  /\ Len(desc) = Len(text)
                /\ \A i \in DOMAIN text :
                      desc[i] = IF i = 1 THEN Upper(text[i]) ELSE Lower(text[i])

(* A condition text with an upper-case character after the first. *)
C5_Witness ==
    /\ AggregateDone
    /\ args.forecast \in DescriptionForecasts
    /\ args.forecast[1].description = <<"n", "N", " ">>
    /\ Daily[1].description = <<"N", "n", " ">>

----------------------------------------------------------------------------
(***************************************************************************)
(* Properties of the upstream calls and of get_dashboard_weather.          *)
(***************************************************************************)

Done(f) == op = f /\ pc = "done"

Returned == result.kind = "return"
Raised(e) == result.kind = "raise" /\ e \in Classes(result.exc)

(* The "no data" summary. *)
NoDataSummary ==
    [aqi |-> None, label |-> "Sin datos", value |-> None, components |-> {}]

(* In a run of get_dashboard_weather: the current-conditions fetch was     *)
(* answered and parsed, and so was the forecast fetch. *)
CurrentSucceeded ==
    /\ Len(responses) >= 1
    /\ GetCurrentWeather(args.city, args.units, API_KEY,
                         responses[1]).result.kind = "return"

ForecastSucceeded ==
    /\ Len(responses) >= 2
    /\ FetchForecast(args.city, args.units, API_KEY,
                     responses[2]).result.kind = "return"

(* C6: get_dashboard_weather returns exactly when the current-conditions   *)
(* fetch and the forecast fetch both succeed; no air-quality outcome makes *)
(* it fail. *)
C6_AirQualityNeverFails ==
    Done("get_dashboard_weather") =>
        (Returned <=> (CurrentSucceeded /\ ForecastSucceeded))

(* C7: with latitude or longitude absent _get_air_quality returns the      *)
(* "no data" summary and issues no HTTP request, also when it is called    *)
(* by get_dashboard_weather with the coordinates of the current            *)
(* conditions. *)
C7_NoRequestWithoutCoordinates ==
    /\ Done("_get_air_quality") /\ (args.lat = None \/ args.lon = None) =>
          /\ result = Return(NoDataSummary)
          /\ Len(requests) = 0
    /\ Done("get_dashboard_weather") /\ Returned
          /\ (result.value.current.lat = None \/ result.value.current.lon = None) =>
          /\ result.value.air_quality = NoDataSummary
          /\ \A i \in DOMAIN requests : requests[i].url # AIR_POLLUTION_URL

(* Only the longitude is absent, and the API key is not configured. *)
C7_Witness ==
    /\ Done("_get_air_quality")
    /\ args.lat # None
    /\ args.lon = None
    /\ API_KEY = ""
    /\ result = Return(NoDataSummary)
    /\ requests = <<>>

QualityLabels == <<"Bueno", "Aceptable", "Moderado", "Pobre", "Muy pobre">>

(* C8: the air-quality label follows a fixed table: an index of 1..5 has   *)
(* its own label, any other index or no index on a successful response     *)
(* has the "no data" label; absent coordinates, a connection failure and   *)
(* a status other than 200 have three distinct labels, each with a null    *)
(* index and no components. *)
C8_LabelTable ==
    Done("_get_air_quality") /\ Returned =>
        LET r == result.value
            absent == requests = <<>>
            failed == requests # <<>> /\ responses[1].raised
            refused == requests # <<>> /\ ~responses[1].raised
                          /\ responses[1].status # 200
        IN  /\ absent => r.label = "Sin datos"
            /\ failed <=> r.label = "Sin conexión"
            /\ refused <=> r.label = "No disponible"
            /\ absent \/ failed \/ refused =>
                  r.aqi = None /\ r.value = None /\ r.components = {}
            /\ ~(absent \/ failed \/ refused) =>
                  /\ r.aqi # None /\ r.aqi[1] \in 1..5 =>
                        r.label = QualityLabels[r.aqi[1]]
                  /\ r.aqi = None \/ r.aqi[1] \notin 1..5 =>
                        r.label = "Sin datos"
            /\ \A i, j \in 1..5 :
                  i # j => QualityLabels[i] # QualityLabels[j]
            /\ r.label \in Range(QualityLabels) =>
                  r.aqi # None /\ r.label = QualityLabels[r.aqi[1]]

C8_Witness ==
    /\ Done("_get_air_quality")
    /\ Returned
    /\ result.value.aqi = Some(5)
    /\ result.value.label = "Muy pobre"
    /\ result.value.components = SomeComponents

(* C9: no HTTP request is issued while the API key is empty or the         *)
(* unconfigured sentinel: get_current_weather, _fetch_forecast,            *)
(* _get_air_quality with coordinates, and get_dashboard_weather raise      *)
(* ValueError first. *)
C9_NoRequestWithoutKey ==
    pc = "done" /\ API_KEY \in {"", "TU_API_KEY_AQUI"} =>
        /\ requests = <<>>
        /\ (\/ op \in {"get_current_weather", "_fetch_forecast",
                       "get_dashboard_weather"}
            \/ (op = "_get_air_quality" /\ args.lat # None /\ args.lon # None))
              => Raised("ValueError")

C9_Witness ==
    /\ Done("_get_air_quality")
    /\ API_KEY = "TU_API_KEY_AQUI"
    /\ args.lat # None
    /\ args.lon # None
    /\ result = ApiKeyError
    /\ requests = <<>>

OnlySpaces(city) == \A i \in DOMAIN city : city[i] = " "

(* C10: get_current_weather and _fetch_forecast, called with an empty or   *)
(* whitespace-only location, raise ValueError before any HTTP request. *)
C10_BlankLocationRejected ==
    /\ pc = "done"
    /\ op \in {"get_current_weather", "_fetch_forecast"}
    /\ OnlySpaces(args.city)
    => /\ Raised("ValueError")
       /\ requests = <<>>

(* The reply to the only request of a current-conditions or forecast       *)
(* fetch is an upstream failure: no reply at all, a status other than 200, *)
(* or a 200 whose body is no JSON. *)
UpstreamFailure(reply) ==
    \/ reply.raised
    \/ reply.status # 200
    \/ reply.body.shape = "text"

(* C11: in get_current_weather and _fetch_forecast every upstream failure  *)
(* (network failure, non-2xx status, success status with an unparseable    *)
(* body) raises WeatherServiceError with a non-empty message, and no       *)
(* exception of another type escapes once the request is sent. *)
C11_UpstreamFailuresWrapped ==
    /\ pc = "done"
    /\ op \in {"get_current_weather", "_fetch_forecast"}
    /\ requests # <<>>
    => /\ UpstreamFailure(responses[1]) =>
              /\ result.kind = "raise"
              /\ result.exc = "WeatherServiceError"
              /\ result.message # ""
       /\ result.kind = "raise" => result.exc = "WeatherServiceError"

(* A 200 reply to the current-conditions request whose JSON object lacks   *)
(* the place name, the temperature or the condition text. *)
IncompleteCurrent(reply) ==
    /\ ~reply.raised
    /\ reply.status = 200
    /\ reply.body.shape = "object"
    /\ \/ reply.body.data.name = None
       \/ reply.body.data.temp = None
       \/ reply.body.data.description = None

(* C16: a current-conditions response of success status that lacks a      *)
(* required field makes get_current_weather raise the incomplete-response  *)
(* error, with its message, instead of returning a result. *)
C16_IncompleteResponseRaises ==
    /\ Done("get_current_weather")
    /\ requests # <<>>
    /\ IncompleteCurrent(responses[1])
    => /\ Raised("WeatherServiceError")
       /\ result.message = "Respuesta incompleta de la API de clima."

Urls == [i \in DOMAIN requests |-> requests[i].url]

(* C17: get_dashboard_weather calls upstream in the order current          *)
(* conditions, forecast, air quality; the air-quality request carries the  *)
(* coordinates the current-conditions reply gave; no forecast or           *)
(* air-quality request follows a failed current-conditions fetch, and no   *)
(* air-quality request follows a failed forecast fetch. *)
C17_CallOrder ==
    Done("get_dashboard_weather") =>
        /\ Urls = SubSeq(<<BASE_URL, FORECAST_URL, AIR_POLLUTION_URL>>,
                         1, Len(requests))
        /\ Len(requests) = 3 =>
              /\ requests[3].params.lat = responses[1].body.data.lat
              /\ requests[3].params.lon = responses[1].body.data.lon
        /\ ~CurrentSucceeded => Len(requests) <= 1
        /\ ~ForecastSucceeded => Len(requests) <= 2
        /\ (/\ CurrentSucceeded /\ ForecastSucceeded
            /\ responses[1].body.data.lat # None
            /\ responses[1].body.data.lon # None) => Len(requests) = 3

(* A run that made all three calls and returned. *)
C17_Witness ==
    /\ Done("get_dashboard_weather")
    /\ Returned
    /\ Len(requests) = 3
    /\ requests[3].params.lat = Some(-12)
    /\ requests[3].params.lon = Some(-77)
    /\ result.value.air_quality.label = "Moderado"

----------------------------------------------------------------------------
(***************************************************************************)
(* The dashboard snapshot, its series and the page drawn from them.        *)
(***************************************************************************)

Rendered(f) == op = f /\ pc = "rendered"

(* The calendar dates of the forecast feed a dashboard run received. *)
RawDates ==
    LET list == Get(responses[2].body.data.list, <<>>)
    IN  {DateOf(FromTimestamp(Get(list[i].dt, 0))) : i \in DOMAIN list}

(* C12, as stated: the daily list of the snapshot returned by              *)
(* get_dashboard_weather has at most 5 entries, the page has at most 5 day *)
(* cards, and the temperature and rain series have as many points as days  *)
(* are charted. *)
C12_SnapshotCappedAtFive ==
    Rendered("get_dashboard_weather") =>
        /\ Len(result.value.forecast) <= 5
        /\ Len(home.cards) <= 5
        /\ Len(result.value.chart_data) = Len(home.points)
        /\ Len(result.value.rain_probability) = Len(home.bars)

(* C12, amended: the daily list of the snapshot has one entry per calendar  *)
(* date of the feed, however many; the page has a card for each of its     *)
(* first 5 entries and no other; both series, and the points and bars      *)
(* drawn from them, are as many as the entries of the daily list. *)
C12_CardsCappedAtFive ==
    Rendered("get_dashboard_weather") =>
        LET forecast == result.value.forecast
            n == Len(forecast)
        IN  /\ n = Cardinality(RawDates)
            /\ Len(home.cards) = IF n < 5 THEN n ELSE 5
            /\ \A i \in DOMAIN home.cards :
                  /\ home.cards[i].temp = forecast[i].temp
                  /\ home.cards[i].description = forecast[i].description
            /\ Len(result.value.chart_data) = n
            /\ Len(result.value.rain_probability) = n
            /\ Len(home.points) = n
            /\ Len(home.bars) = n

(* A feed of more than 5 dates, rendered. *)
C12_Witness ==
    /\ Rendered("get_dashboard_weather")
    /\ Len(result.value.forecast) = MaxDates
    /\ Len(home.cards) = 5
    /\ Len(home.points) = MaxDates
    /\ Len(home.bars) = MaxDates

(* C13: _build_chart_data and _build_rain_probability give, for every      *)
(* daily list, a list of the same length whose i-th element carries the    *)
(* date of the i-th daily entry. *)
C13_SeriesKeepLengthAndOrder ==
    /\ Done("_build_chart_data") =>
          /\ Len(result.value) = Len(args.daily)
          /\ \A i \in DOMAIN args.daily : result.value[i].label = args.daily[i].date
    /\ Done("_build_rain_probability") =>
          /\ Len(result.value) = Len(args.daily)
          /\ \A i \in DOMAIN args.daily : result.value[i].date = args.daily[i].date

(* A rain series of three dates, the first without a probability. *)
C13_Witness ==
    /\ Done("_build_rain_probability")
    /\ Len(args.daily) = 3
    /\ args.daily[1].pop = None
    /\ args.daily[3].pop # None
    /\ result.value[1].date.day < result.value[2].date.day
    /\ result.value[2].date.day < result.value[3].date.day

(* The daily list a chart was drawn from. *)
Charted == IF op = "get_dashboard_weather" THEN result.value.forecast ELSE args.daily

(* C14: the temperature point of a daily entry without a temperature has   *)
(* value 0, and that of any other entry has the entry's temperature. *)
C14_NullTemperatureIsZero ==
    (Rendered("get_dashboard_weather") \/ Rendered("_build_chart_data")) =>
        /\ Len(home.points) = Len(Charted)
        /\ \A i \in DOMAIN Charted :
              home.points[i].y = IF Charted[i].temp = None THEN 0
                                 ELSE Charted[i].temp[1]

(* A chart of a date without a temperature and a date with one. *)
C14_Witness ==
    /\ Rendered("_build_chart_data")
    /\ Len(args.daily) = 2
    /\ args.daily[1].temp = None /\ home.points[1].y = 0
    /\ args.daily[2].temp = Some(217) /\ home.points[2].y = 217

(* C15: the rain probability of a daily entry is 100 times its             *)
(* precipitation probability (a number of hundredths h gives h), within    *)
(* 0..100, and 0 for an entry without one. *)
C15_ProbabilityIsHundredfold ==
    Done("_build_rain_probability") =>
        /\ Len(result.value) = Len(args.daily)
        /\ \A i \in DOMAIN args.daily :
              /\ result.value[i].probability \in 0..100
              /\ result.value[i].probability =
                    IF args.daily[i].pop = None THEN 0 ELSE args.daily[i].pop[1]

----------------------------------------------------------------------------
(***************************************************************************)
(* The runs of handle_search in one window.                                *)
(***************************************************************************)

(* The run has turned the loading indicator on and not yet off. *)
Loading(h) ==
    runs[h].pc \in {"fetch", "error_status", "error_card", "ok_card",
                    "ok_status", "finally"}

(* The run is at a statement past its first. *)
Running(h) == runs[h].pc \notin {"idle", "clear_status", "returned"}

(* C18: while a run of handle_search is between turning the loading        *)
(* indicator on and turning it off, no other run is executing. *)
C18_RunsDoNotOverlap ==
    \A h1, h2 \in Handlers : (h1 # h2 /\ Loading(h1)) => ~Running(h2)

(* C19: when a run of handle_search has ended in an error, the blank city  *)
(* included, the status line shows the message of that error and the card  *)
(* is blank; when it has ended well, the card shows its result and the     *)
(* status line the success message. *)
C19_StatusAndCardOfTheRun ==
    \A h \in Handlers : runs[h].pc = "returned" =>
        /\ runs[h].outcome.kind = "raise" =>
              /\ status_text.value = runs[h].outcome.message
              /\ weather_container = None
        /\ runs[h].outcome.kind = "return" =>
              /\ weather_container = Some(BuildWeatherCard(runs[h].outcome.value))
              /\ status_text.value = SuccessMessage

InFlight == \E h \in Handlers : Loading(h)

(* C20: a run of handle_search that has turned the loading indicator on    *)
(* turns it off again, however the fetch ended, and the indicator is not   *)
(* visible when no run is between the two. *)
C20_LoadingTurnedOff ==
    /\ \A h \in Handlers : [](Loading(h) => <>(runs[h].pc = "returned"))
    /\ [](~InFlight => ~progress_ring)

(* A run whose fetch raised an exception that handle_search does not       *)
(* catch has turned the indicator off. *)
C20_Witness ==
    \E h \in Handlers :
        /\ runs[h].pc = "returned"
        /\ runs[h].outcome.kind = "raise"
        /\ runs[h].outcome.exc = "AttributeError"
        /\ ~InFlight
        /\ ~progress_ring

====
